---- MODULE Spec2Model ----
(***************************************************************************)
(* frontend/server.py: a single-threaded static file server                *)
(* (socketserver.TCPServer + CORSHTTPRequestHandler) started by main().    *)
(*                                                                         *)
(* The main thread is modelled by its position pc; KeyboardInterrupt may   *)
(* be raised at any position.  A handled request is computed by the pure   *)
(* operators below (they follow the handler's call chain) into a sequence  *)
(* of events -- log lines printed and writes to the connection -- which    *)
(* the server then performs one at a time.                                 *)
(***************************************************************************)
EXTENDS Integers, Sequences, FiniteSets, TLC

VARIABLES
    argv,            \* sys.argv[1:], each argument a sequence of characters
    busy,            \* ports other processes hold (environment)
    pc,              \* position of the main thread
    port,            \* <<>> until line 42 assigns it, then <<n>>
    sock,            \* httpd.socket: [st, port]
    is_shut_down,    \* BaseServer.__is_shut_down (threading.Event flag)
    shutdown_request,\* BaseServer.__shutdown_request
    stdout,          \* lines printed so far
    exitStatus,      \* -1 while the process runs, then its exit status
    nint,            \* interrupts delivered so far
    intAt,           \* position at which the first interrupt was raised
    cl,              \* per client: connection state and what it received
    ex               \* the request being handled (NoEx when none)

vars == <<argv, busy, pc, port, sock, is_shut_down, shutdown_request,
          stdout, exitStatus, nint, intAt, cl, ex>>

----------------------------------------------------------------------------
(* Bounds *)

NumClients == 2
MaxInterrupts == 1
ChunkSize == 1

Clients == 1..NumClients

----------------------------------------------------------------------------
(* Command line and ports *)

DefaultPort == 8000
MaxPort == 65535

Digits == <<"0", "1", "2", "3", "4", "5", "6", "7", "8", "9">>

IsDigit(ch) == \E i \in 1..10 : Digits[i] = ch

DigitVal(ch) == (CHOOSE i \in 1..10 : Digits[i] = ch) - 1

RECURSIVE DigitsVal(_)
DigitsVal(s) ==
    IF s = <<>> THEN 0
    ELSE 10 * DigitsVal(SubSeq(s, 1, Len(s) - 1)) + DigitVal(s[Len(s)])

\* int(s): an optional sign followed by one or more decimal digits;
\* anything else raises ValueError.
IntOk(s) ==
    LET body == IF s # <<>> /\ s[1] \in {"-", "+"} THEN Tail(s) ELSE s
    IN  body # <<>> /\ \A i \in 1..Len(body) : IsDigit(body[i])

IntVal(s) ==
    IF s[1] = "-" THEN 0 - DigitsVal(Tail(s))
    ELSE IF s[1] = "+" THEN DigitsVal(Tail(s))
    ELSE DigitsVal(s)

\* The command lines explored: no argument, and one argument.
Args ==
    { <<>>,
      << <<"0">> >>,
      << <<"1">> >>,
      << <<"-", "1">> >>,
      << <<"a", "b", "c">> >>,
      << <<"6", "5", "5", "3", "5">> >>,
      << <<"6", "5", "5", "3", "6">> >> }

\* Ports another process may already hold, and the ports the kernel hands
\* out for a bind to port 0.
ContendedPorts == {8000}
EphemeralPorts == {32768}

----------------------------------------------------------------------------
(* The served directory *)

File(data, mtime) == [type |-> "file", data |-> data, mtime |-> mtime]
Dir == [type |-> "dir", data |-> <<>>, mtime |-> 0]

FS ==
    (<<>> :> Dir) @@
    (<<"index.html">> :> File(<<60, 104, 62>>, 5)) @@
    (<<"a.txt">> :> File(<<115, 101>>, 5)) @@
    (<<"sub">> :> Dir) @@
    (<<"sub", "index.html">> :> File(<<120>>, 5)) @@
    (<<"empty">> :> Dir)

isdir(p) == p.comps \in DOMAIN FS /\ FS[p.comps].type = "dir"

\* A name with a trailing slash never names a regular file.
isfile(p) == ~p.slash /\ p.comps \in DOMAIN FS /\ FS[p.comps].type = "file"

\* posixpath.normpath on an absolute path: "." is dropped, ".." removes the
\* component before it and is dropped at the root.
RECURSIVE normpath(_, _)
normpath(words, acc) ==
    IF words = <<>> THEN acc
    ELSE IF Head(words) = "."
         THEN normpath(Tail(words), acc)
    ELSE IF Head(words) = ".."
         THEN normpath(Tail(words),
                       IF acc = <<>> THEN acc ELSE SubSeq(acc, 1, Len(acc) - 1))
    ELSE normpath(Tail(words), Append(acc, Head(words)))

\* translate_path: normalise, then ignore components that are not a simple
\* name; the explicit trailing slash is kept.
translate_path(path) ==
    [comps |-> SelectSeq(normpath(path.comps, <<>>),
                         LAMBDA w : w \notin {".", ".."}),
     slash |-> path.slash]

----------------------------------------------------------------------------
(* Requests *)

Methods == {"GET", "HEAD", "OPTIONS", "POST"}

Path(comps, slash) == [comps |-> comps, slash |-> slash]

Paths ==
    { Path(<<"index.html">>, FALSE),
      Path(<<"index.html">>, TRUE),
      Path(<<"missing">>, FALSE),
      Path(<<"sub">>, FALSE),
      Path(<<"sub">>, TRUE),
      Path(<<"empty">>, TRUE),
      Path(<<"..", "a.txt">>, FALSE) }

\* version "HTTP/0.9" stands for a request line of two words (no version).
\* ims is the If-Modified-Since header: <<>> when absent, else <<time>>.
Requests ==
    [method : Methods, path : Paths, version : {"HTTP/0.9"}, ims : {<<>>}]
    \cup
    [method : Methods, path : Paths, version : {"HTTP/1.1"},
     ims : {<<>>, <<4>>, <<5>>}]

----------------------------------------------------------------------------
(* The request handler: CORSHTTPRequestHandler over the standard           *)
(* SimpleHTTPRequestHandler.  h is the handler object while one request    *)
(* is processed: rv = request_version, command, status and buf = the       *)
(* _headers_buffer, ev = what it has printed and written, in order.        *)

LogEv(kind, code) ==
    [t |-> "log", kind |-> kind, code |-> code, hdrs |-> <<>>, bytes |-> <<>>]
HeadEv(code, hdrs) ==
    [t |-> "head", kind |-> "", code |-> code, hdrs |-> hdrs, bytes |-> <<>>]
BodyEv(bytes) ==
    [t |-> "body", kind |-> "", code |-> 0, hdrs |-> <<>>, bytes |-> bytes]

NewHandler ==
    [rv |-> "HTTP/0.9", command |-> "", status |-> 0, buf |-> <<>>, ev |-> <<>>]

log_message_silent(h, kind, code) == h

\* log_message: print one line.
log_message(h, kind, code) == [h EXCEPT !.ev = Append(@, LogEv(kind, code))]

log_request(h, code) == log_message(h, "access", code)
log_error(h, code) == log_message(h, "error", code)

send_response_only(h, code) ==
    IF h.rv # "HTTP/0.9" THEN [h EXCEPT !.status = code] ELSE h

send_header(h, keyword, value) ==
    IF h.rv # "HTTP/0.9" THEN [h EXCEPT !.buf = Append(@, <<keyword, value>>)]
    ELSE h

write(h, bytes) == [h EXCEPT !.ev = Append(@, BodyEv(bytes))]

\* BaseHTTPRequestHandler.end_headers: flush the status line and the
\* buffered headers in one write; nothing at all for HTTP/0.9.
base_end_headers(h) ==
    IF h.rv # "HTTP/0.9"
    THEN [h EXCEPT !.ev = Append(@, HeadEv(h.status, h.buf)),
                   !.buf = <<>>, !.status = 0]
    ELSE h

end_headers_inherited(h) == base_end_headers(h)

\* CORSHTTPRequestHandler.end_headers
end_headers(h) ==
    base_end_headers(
        send_header(
            send_header(
                send_header(h, "Access-Control-Allow-Origin", "*"),
                "Access-Control-Allow-Methods", "GET, POST, OPTIONS"),
            "Access-Control-Allow-Headers", "Content-Type"))

send_response(h, code) ==
    send_header(
        send_header(send_response_only(log_request(h, code), code),
                    "Server", "SimpleHTTP"),
        "Date", "now")

\* The HTML page send_error builds from the code, and the page
\* list_directory builds, as bytes.
ErrorPage(code) == <<60, 33, code>>
ListingPage == <<60, 33, 76>>

send_error(h, code) ==
    LET h1 == send_header(send_response(log_error(h, code), code),
                          "Connection", "close")
        body == IF code >= 200 /\ code \notin {204, 205, 304}
                THEN ErrorPage(code) ELSE <<>>
        h2 == IF body # <<>>
              THEN send_header(
                       send_header(h1, "Content-Type", "text/html"),
                       "Content-Length", ToString(Len(body)))
              ELSE h1
        h3 == end_headers(h2)
    IN  IF h.command # "HEAD" /\ body # <<>> THEN write(h3, body) ELSE h3

do_OPTIONS_undefined(h) == send_error(h, 501)

\* CORSHTTPRequestHandler.do_OPTIONS
do_OPTIONS(h) == end_headers(send_response(h, 200))

\* shutil.copyfileobj: read a chunk, write it, until the source is empty.
RECURSIVE copyfile(_, _)
copyfile(h, data) ==
    IF data = <<>> THEN h
    ELSE IF Len(data) <= ChunkSize THEN write(h, data)
    ELSE copyfile(write(h, SubSeq(data, 1, ChunkSize)),
                  SubSeq(data, ChunkSize + 1, Len(data)))

NoFile == [open |-> FALSE, data |-> <<>>]
Opened(data) == [open |-> TRUE, data |-> data]

\* The tail of send_head once the path names no directory: 404 unless the
\* file can be opened (exists), 304 when If-Modified-Since is not older
\* than the file, else 200 and the open file.
ServeFile(h, req, q, exists) ==
    IF ~exists
    THEN [h |-> send_error(h, 404), f |-> NoFile]
    ELSE LET node == FS[q.comps]
         IN  IF req.ims # <<>> /\ node.mtime <= req.ims[1]
             THEN [h |-> end_headers(send_response(h, 304)), f |-> NoFile]
             ELSE [h |-> end_headers(
                           send_header(
                             send_header(
                               send_header(send_response(h, 200),
                                           "Content-type", "guessed"),
                               "Content-Length", ToString(Len(node.data))),
                             "Last-Modified", ToString(node.mtime))),
                   f |-> Opened(node.data)]

serve_file_ignoring_slash(h, req, q) ==
    ServeFile(h, req, q, isfile([q EXCEPT !.slash = FALSE]))

\* A path with a trailing slash is refused before open() is tried.
serve_file(h, req, q) == ServeFile(h, req, q, ~q.slash /\ isfile(q))

\* send_head: the status line and headers of GET and HEAD; returns the
\* handler and the file object to copy (NoFile when there is none).
send_head(h, req) ==
    LET p == translate_path(req.path)
        index == [comps |-> Append(p.comps, "index.html"), slash |-> FALSE]
    IN  IF isdir(p)
        THEN IF ~req.path.slash
             THEN [h |-> end_headers(
                           send_header(
                             send_header(send_response(h, 301),
                                         "Location", "path/"),
                             "Content-Length", "0")),
                   f |-> NoFile]
             ELSE IF isfile(index) THEN serve_file(h, req, index)
             ELSE [h |-> end_headers(
                           send_header(
                             send_header(send_response(h, 200),
                                         "Content-type", "text/html"),
                             "Content-Length", ToString(Len(ListingPage)))),
                   f |-> Opened(ListingPage)]
        ELSE serve_file(h, req, p)

do_GET_without_copy(h, req) == send_head(h, req).h

do_GET(h, req) ==
    LET r == send_head(h, req)
    IN  IF r.f.open THEN copyfile(r.h, r.f.data) ELSE r.h

do_HEAD(h, req) == send_head(h, req).h

\* parse_request: a two-word request line is HTTP/0.9 and only GET is
\* allowed; the error reply is sent while request_version is still the
\* default "HTTP/0.9".
parse_request(h, req) ==
    IF req.version = "HTTP/0.9"
    THEN IF req.method # "GET"
         THEN [ok |-> FALSE, h |-> send_error(h, 400)]
         ELSE [ok |-> TRUE, h |-> [h EXCEPT !.command = req.method]]
    ELSE [ok |-> TRUE,
          h |-> [h EXCEPT !.rv = req.version, !.command = req.method]]

\* handle_one_request: parse, then dispatch on do_<command>.
handle_one_request(req) ==
    LET r == parse_request(NewHandler, req)
        h == r.h
    IN  IF ~r.ok THEN h
        ELSE IF h.command = "GET" THEN do_GET(h, req)
        ELSE IF h.command = "HEAD" THEN do_HEAD(h, req)
        ELSE IF h.command = "OPTIONS" THEN do_OPTIONS(h)
        ELSE send_error(h, 501)

----------------------------------------------------------------------------
(* State *)

NoEx ==
    [c |-> 0, req |-> <<>>, command |-> "", read |-> FALSE, ev |-> <<>>,
     head |-> FALSE, status |-> 0, hdrs |-> <<>>, body |-> <<>>, logs |-> <<>>]

NewClient == [st |-> "idle", sent |-> FALSE, eof |-> FALSE, got |-> "none"]

Init ==
    /\ argv \in Args
    /\ busy \in SUBSET ContendedPorts
    /\ pc = "line42"
    /\ port = <<>>
    /\ sock = [st |-> "none", port |-> 0]
    /\ is_shut_down = FALSE
    /\ shutdown_request = FALSE
    /\ stdout = <<>>
    /\ exitStatus = -1
    /\ nint = 0
    /\ intAt = ""
    /\ cl = [c \in Clients |-> NewClient]
    /\ ex = NoEx

Line(kind, code) == [kind |-> kind, code |-> code]

\* The process ends: an uncaught exception gives status 1, an uncaught
\* KeyboardInterrupt 130, a return from main() 0.
Exit(status) ==
    /\ pc' = "exited"
    /\ exitStatus' = status

----------------------------------------------------------------------------
(* main() *)

\* line 42: port = int(sys.argv[1]) if len(sys.argv) > 1 else 8000
ParsePort ==
    /\ pc = "line42"
    /\ IF Len(argv) > 0
       THEN IF IntOk(argv[1])
            THEN port' = <<IntVal(argv[1])>> /\ pc' = "line45"
                 /\ UNCHANGED exitStatus
            ELSE Exit(1) /\ UNCHANGED port
       ELSE port' = <<DefaultPort>> /\ pc' = "line45" /\ UNCHANGED exitStatus
    /\ UNCHANGED <<argv, busy, sock, is_shut_down, shutdown_request, stdout,
                   nint, intAt, cl, ex>>

\* line 45: os.chdir(<directory of the script>)
Chdir ==
    /\ pc = "line45"
    /\ pc' = "line48"
    /\ UNCHANGED <<argv, busy, port, sock, is_shut_down, shutdown_request,
                   stdout, exitStatus, nint, intAt, cl, ex>>

\* The port the kernel binds for a requested port, if it can: port 0 asks
\* for any free ephemeral port.
BindChoices(p) ==
    IF p < 0 \/ p > MaxPort THEN {}
    ELSE IF p = 0 THEN EphemeralPorts \ busy
    ELSE {p} \ busy

\* line 48: socketserver.TCPServer(("", port), CORSHTTPRequestHandler):
\* create the socket, bind, listen; on failure close the socket and raise.
CreateServer ==
    /\ pc = "line48"
    /\ \/ /\ BindChoices(port[1]) # {}
          /\ \E b \in BindChoices(port[1]) :
                sock' = [st |-> "listening", port |-> b]
          /\ pc' = "banner"
          /\ UNCHANGED exitStatus
       \/ /\ BindChoices(port[1]) = {}
          /\ sock' = [st |-> "closed", port |-> 0]
          /\ Exit(1)
    /\ is_shut_down' = FALSE
    /\ shutdown_request' = FALSE
    /\ UNCHANGED <<argv, busy, port, stdout, nint, intAt, cl, ex>>

\* lines 49-54: the banner
PrintBanner ==
    /\ pc = "banner"
    /\ stdout' = stdout \o << Line("banner", port[1]) >>
    /\ pc' = "line57"
    /\ UNCHANGED <<argv, busy, port, sock, is_shut_down, shutdown_request,
                   exitStatus, nint, intAt, cl, ex>>

\* line 57: httpd.serve_forever() is called inside main's try; it clears
\* __is_shut_down and then enters its own try block and the select loop.
ServeForeverEnter ==
    /\ pc = "line57"
    /\ is_shut_down' = FALSE
    /\ pc' = "select"
    /\ UNCHANGED <<argv, busy, port, sock, shutdown_request, stdout,
                   exitStatus, nint, intAt, cl, ex>>

\* serve_forever's loop: select() reports a pending connection and
\* _handle_request_noblock accepts it; the handler is constructed in the
\* main thread.  (The loop's exit test, __shutdown_request, is set only by
\* shutdown().)
Accept(c) ==
    /\ pc = "select"
    /\ ~shutdown_request
    /\ cl[c].st = "queued"
    /\ cl' = [cl EXCEPT ![c].st = "accepted"]
    /\ ex' = [NoEx EXCEPT !.c = c]
    /\ pc' = "read"
    /\ UNCHANGED <<argv, busy, port, sock, is_shut_down, shutdown_request,
                   stdout, exitStatus, nint, intAt>>

\* handle_one_request: rfile.readline() blocks until the client has sent
\* its request (no timeout is set) or has closed its side.
ReadRequest ==
    /\ pc = "read"
    /\ \/ /\ cl[ex.c].sent
          /\ \E req \in Requests :
                LET h == handle_one_request(req)
                IN  ex' = [ex EXCEPT !.req = <<req>>, !.command = h.command,
                                     !.read = TRUE, !.ev = h.ev]
       \/ /\ cl[ex.c].eof
          /\ ex' = [ex EXCEPT !.read = TRUE]
    /\ pc' = "respond"
    /\ UNCHANGED <<argv, busy, port, sock, is_shut_down, shutdown_request,
                   stdout, exitStatus, nint, intAt, cl>>

\* The handler's next print or write.
Respond ==
    /\ pc = "respond"
    /\ ex.ev # <<>>
    /\ LET e == Head(ex.ev)
       IN  /\ stdout' = IF e.t = "log" THEN Append(stdout, Line(e.kind, e.code))
                        ELSE stdout
           /\ ex' = [ex EXCEPT
                       !.ev = Tail(@),
                       !.logs = IF e.t = "log"
                                THEN Append(@, Line(e.kind, e.code)) ELSE @,
                       !.head = IF e.t = "head" THEN TRUE ELSE @,
                       !.status = IF e.t = "head" THEN e.code ELSE @,
                       !.hdrs = IF e.t = "head" THEN e.hdrs ELSE @,
                       !.body = IF e.t = "body" THEN @ \o e.bytes ELSE @]
    /\ UNCHANGED <<argv, busy, pc, port, sock, is_shut_down, shutdown_request,
                   exitStatus, nint, intAt, cl>>

\* What the client holds when its connection is closed.
Wrote(x) == x.head \/ x.body # <<>>
WritesLeft(x) == \E i \in 1..Len(x.ev) : x.ev[i].t # "log"
Received(x) ==
    IF ~Wrote(x) THEN "none"
    ELSE IF WritesLeft(x) THEN "partial"
    ELSE "full"

\* The handler returns; shutdown_request(request) closes the connection.
Finish ==
    /\ pc = "respond"
    /\ ex.ev = <<>>
    /\ cl' = [cl EXCEPT ![ex.c].st = "closed", ![ex.c].got = Received(ex)]
    /\ ex' = NoEx
    /\ pc' = "select"
    /\ UNCHANGED <<argv, busy, port, sock, is_shut_down, shutdown_request,
                   stdout, exitStatus, nint, intAt>>

\* line 59: print("\n... Server stopped by user")
PrintStopped ==
    /\ pc = "line59"
    /\ stdout' = Append(stdout, Line("stopped", 0))
    /\ pc' = "line60"
    /\ UNCHANGED <<argv, busy, port, sock, is_shut_down, shutdown_request,
                   exitStatus, nint, intAt, cl, ex>>

\* line 60: httpd.shutdown() sets __shutdown_request and waits on
\* __is_shut_down.
Shutdown ==
    /\ pc = "line60"
    /\ shutdown_request' = TRUE
    /\ pc' = "shutdown_wait"
    /\ UNCHANGED <<argv, busy, port, sock, is_shut_down, stdout, exitStatus,
                   nint, intAt, cl, ex>>

\* __is_shut_down.wait() returns once the event is set.
ShutdownReturn ==
    /\ pc = "shutdown_wait"
    /\ is_shut_down
    /\ pc' = "with_exit"
    /\ UNCHANGED <<argv, busy, port, sock, is_shut_down, shutdown_request,
                   stdout, exitStatus, nint, intAt, cl, ex>>

\* The with statement of line 48 ends: server_close(); main() returns.
ServerClose ==
    /\ pc = "with_exit"
    /\ sock' = [sock EXCEPT !.st = "closed"]
    /\ Exit(0)
    /\ UNCHANGED <<argv, busy, port, is_shut_down, shutdown_request, stdout,
                   nint, intAt, cl, ex>>

----------------------------------------------------------------------------
(* SIGINT: KeyboardInterrupt raised in the main thread at its position *)

BeforeWith == {"line42", "line45", "line48"}
InServeLoop == {"select", "read", "respond"}
InExcept == {"line59", "line60", "shutdown_wait", "with_exit"}

Interrupt ==
    /\ nint < MaxInterrupts
    /\ pc # "exited"
    /\ nint' = nint + 1
    /\ intAt' = IF nint = 0 THEN pc ELSE intAt
    /\ \/ \* no handler in scope: the exception ends the process
          /\ pc \in BeforeWith
          /\ Exit(130)
          /\ UNCHANGED <<sock, is_shut_down, shutdown_request, cl, ex>>
       \/ \* inside the with, outside the try (or inside the except
          \* clause): server_close() runs and the exception propagates
          /\ pc \in {"banner"} \cup InExcept
          /\ sock' = [sock EXCEPT !.st = "closed"]
          /\ Exit(130)
          /\ UNCHANGED <<is_shut_down, shutdown_request, cl, ex>>
       \/ \* inside main's try, before serve_forever's own try: caught at
          \* line 58 with serve_forever's finally clause not run
          /\ pc = "line57"
          /\ pc' = "line59"
          /\ UNCHANGED <<sock, is_shut_down, shutdown_request, exitStatus,
                         cl, ex>>
       \/ \* inside serve_forever's try: a request being handled is shut
          \* down (_handle_request_noblock), the finally clause resets
          \* __shutdown_request and sets __is_shut_down; caught at line 58
          /\ pc \in InServeLoop
          /\ IF ex.c # 0
             THEN cl' = [cl EXCEPT ![ex.c].st = "closed",
                                   ![ex.c].got = Received(ex)]
             ELSE cl' = cl
          /\ ex' = NoEx
          /\ shutdown_request' = FALSE
          /\ is_shut_down' = TRUE
          /\ pc' = "line59"
          /\ UNCHANGED <<sock, exitStatus>>
    /\ UNCHANGED <<argv, busy, port, stdout>>

----------------------------------------------------------------------------
(* Clients *)

\* connect(): the kernel queues the connection once the socket listens.
ClientConnect(c) ==
    /\ sock.st = "listening"
    /\ cl[c].st = "idle"
    /\ cl' = [cl EXCEPT ![c].st = "queued"]
    /\ UNCHANGED <<argv, busy, pc, port, sock, is_shut_down, shutdown_request,
                   stdout, exitStatus, nint, intAt, ex>>

\* The client sends its request.
ClientSend(c) ==
    /\ cl[c].st \in {"queued", "accepted"}
    /\ ~cl[c].sent /\ ~cl[c].eof
    /\ cl' = [cl EXCEPT ![c].sent = TRUE]
    /\ UNCHANGED <<argv, busy, pc, port, sock, is_shut_down, shutdown_request,
                   stdout, exitStatus, nint, intAt, ex>>

\* The client closes its side without sending anything.
ClientClose(c) ==
    /\ cl[c].st \in {"queued", "accepted"}
    /\ ~cl[c].sent /\ ~cl[c].eof
    /\ cl' = [cl EXCEPT ![c].eof = TRUE]
    /\ UNCHANGED <<argv, busy, pc, port, sock, is_shut_down, shutdown_request,
                   stdout, exitStatus, nint, intAt, ex>>

----------------------------------------------------------------------------

ServerNext ==
    \/ ParsePort
    \/ Chdir
    \/ CreateServer
    \/ PrintBanner
    \/ ServeForeverEnter
    \/ \E c \in Clients : Accept(c)
    \/ ReadRequest
    \/ Respond
    \/ Finish
    \/ PrintStopped
    \/ Shutdown
    \/ ShutdownReturn
    \/ ServerClose

ClientNext ==
    \E c \in Clients : ClientConnect(c) \/ ClientSend(c) \/ ClientClose(c)

Next == ServerNext \/ Interrupt \/ ClientNext

Spec == Init /\ [][Next]_vars

----------------------------------------------------------------------------
(* Properties *)

HasReq == ex.req # <<>>
Req == ex.req[1]
Versioned == HasReq /\ Req.version # "HTTP/0.9"
Complete == pc = "respond" /\ ex.read /\ ex.ev = <<>>
Target == translate_path(Req.path)

\* The three headers of the specification's section 6.
HasHeader(x, name, value) ==
    /\ \E i \in 1..Len(x.hdrs) : x.hdrs[i] = <<name, value>>
    /\ \A i \in 1..Len(x.hdrs) : x.hdrs[i][1] = name => x.hdrs[i][2] = value

CarriesCORS(x) ==
    /\ x.head
    /\ HasHeader(x, "Access-Control-Allow-Origin", "*")
    /\ HasHeader(x, "Access-Control-Allow-Methods", "GET, POST, OPTIONS")
    /\ HasHeader(x, "Access-Control-Allow-Headers", "Content-Type")

IsPrefix(a, b) == Len(a) <= Len(b) /\ a = SubSeq(b, 1, Len(a))

\* C1 as stated: whatever the server has written in reply to a request,
\* for any method and status, carries the three CORS headers with exactly
\* the values of section 6.
C1_EveryResponseCarriesCORS == Wrote(ex) => CarriesCORS(ex)

\* C1 amended: every reply to a request line that carries an HTTP/1.x
\* version has a header section with the three CORS headers, whatever the
\* method and status; the reply to a version-less (HTTP/0.9-style) request
\* line is a bare body without status line or headers.
C1_VersionedResponsesCarryCORS ==
    /\ Wrote(ex) /\ Versioned => CarriesCORS(ex)
    /\ Wrote(ex) /\ HasReq /\ ~Versioned => ~ex.head

C1_Witness ==
    /\ Versioned /\ Req.method = "POST" /\ ex.status = 501 /\ CarriesCORS(ex)

NotModified == Req.ims # <<>> /\ FS[Target.comps].mtime <= Req.ims[1]

RECURSIVE Escapes(_, _)
Escapes(words, depth) ==
    IF words = <<>> THEN FALSE
    ELSE IF Head(words) = ".." THEN depth = 0 \/ Escapes(Tail(words), depth - 1)
    ELSE IF Head(words) = "." THEN Escapes(Tail(words), depth)
    ELSE Escapes(Tail(words), depth + 1)

\* C3 as stated: a GET whose path does not resolve to an existing regular
\* file (missing, escaping the root, or naming a directory) is answered
\* with 404 (stated here for the answers that have a status line).
C3_NoFileIs404 ==
    Complete /\ Versioned /\ ex.command = "GET"
    /\ (~isfile(Target) \/ Escapes(Req.path.comps, 0))
        => ex.status = 404

\* C3 amended: a GET with an HTTP/1.x request line whose path, after its
\* "." and ".." components are normalised away (".." at the root is
\* dropped), names neither an existing regular file nor an existing
\* directory is answered with 404.
C3_MissingIs404 ==
    HasReq /\ ex.command = "GET" /\ Versioned
    /\ ~isfile(Target) /\ ~isdir(Target)
        => /\ ex.head => ex.status = 404
           /\ Complete => ex.head

C3_Witness ==
    /\ Complete /\ HasReq /\ ex.command = "GET" /\ Versioned
    /\ Req.path = Path(<<"missing">>, FALSE) /\ ex.status = 404

\* C4: an OPTIONS request, to a path that exists or not, is answered with
\* status 200, no body, and the three CORS headers.
C4_OptionsIs200Empty ==
    ex.command = "OPTIONS"
        => /\ ex.body = <<>>
           /\ ex.head => ex.status = 200 /\ CarriesCORS(ex)
           /\ Complete => ex.head

C4_Witness ==
    /\ Complete /\ ex.command = "OPTIONS"
    /\ Req.path = Path(<<"missing">>, FALSE)
    /\ ex.status = 200 /\ ex.body = <<>> /\ CarriesCORS(ex)

\* The first interrupt arrived after serve_forever() had been called: the
\* socket listens and the banner is printed.
InterruptedWhileServing ==
    nint = 1 /\ intAt \in {"line57", "select", "read", "respond"}

Printed(kind) == \E i \in 1..Len(stdout) : stdout[i].kind = kind

\* C5: once the server is listening, an interrupt leads to termination:
\* the shutdown message is printed, the shutdown() call returns, the
\* socket is closed and the exit status is 0.
C5_InterruptTerminatesCleanly ==
    InterruptedWhileServing
        => /\ pc = "shutdown_wait" => is_shut_down
           /\ pc = "exited"
                => exitStatus = 0 /\ Printed("stopped") /\ sock.st = "closed"

\* C6: an interrupt never cuts off a response that has started: no client
\* is left with part of a response.
C6_NoTruncatedResponse == \A c \in Clients : cl[c].got # "partial"

InvalidPortArg ==
    /\ Len(argv) > 0
    /\ \/ ~IntOk(argv[1])
       \/ IntOk(argv[1]) /\ IntVal(argv[1]) \notin 1..MaxPort

\* C7: a port argument that is no integer or lies outside 1..65535 is
\* fatal: the socket never listens and the exit status is not 0.
C7_InvalidPortIsFatal ==
    InvalidPortArg
        => /\ sock.st \notin {"bound", "listening"}
           /\ pc \in BeforeWith \cup {"exited"}
           /\ pc = "exited" => exitStatus # 0

ConfiguredPort == IF argv = <<>> THEN 8000 ELSE IntVal(argv[1])

ValidFreePort ==
    /\ argv # <<>> => IntOk(argv[1])
    /\ ConfiguredPort \in 1..MaxPort
    /\ ConfiguredPort \notin busy

\* C8: the socket listens on exactly the port given as first argument, on
\* 8000 without one, and startup on a free port of 1..65535 succeeds.
C8_ListensOnGivenPort ==
    /\ sock.st = "listening" => sock.port = ConfiguredPort
    /\ ValidFreePort /\ pc \notin BeforeWith \cup {"exited"}
        => sock.st = "listening" /\ sock.port = ConfiguredPort
    /\ ValidFreePort /\ pc = "exited" => nint > 0

AccessLines(x) == SelectSeq(x.logs, LAMBDA l : l.kind = "access")

\* C9 as stated: for every handled request exactly one log line is
\* printed, and only after the response has been sent (stated here for
\* the requests that carry an HTTP version).
C9_OneLogLineAfterResponse ==
    Versioned
        => /\ ex.logs # <<>> => Wrote(ex) /\ ~WritesLeft(ex)
           /\ Complete => Len(ex.logs) = 1

\* C9 amended: for every handled request exactly one access-log line,
\* giving the response status, is printed, and it is printed before the
\* response is sent; an error response (status 400 and above) is preceded
\* by one further error line, so that two lines are printed for it.
C9_AccessLineBeforeResponse ==
    HasReq
        => /\ Len(AccessLines(ex)) <= 1
           /\ Wrote(ex) => Len(AccessLines(ex)) = 1
           /\ ex.head => AccessLines(ex)[1].code = ex.status
           /\ Complete
                => /\ Len(AccessLines(ex)) = 1
                   /\ LET code == AccessLines(ex)[1].code
                      IN  ex.logs = IF code >= 400
                                    THEN <<Line("error", code),
                                           Line("access", code)>>
                                    ELSE <<Line("access", code)>>
                   /\ \E i \in 1..Len(stdout) :
                         stdout[i] = AccessLines(ex)[1]

C9_Witness ==
    /\ Complete /\ HasReq /\ ex.head /\ ex.status = 404
    /\ ex.logs = <<Line("error", 404), Line("access", 404)>>

\* C10: a connection whose request is never sent does not keep another
\* client's request from being accepted and answered: while a request that
\* has been sent waits in the accept queue, the serving thread is never
\* blocked (it always has a step it can take).
C10_NoHeadOfLineBlocking ==
    \A c \in Clients :
        cl[c].st = "queued" /\ cl[c].sent /\ pc \in InServeLoop
            => ENABLED ServerNext

====
